---------------------------- MODULE Spec2Model ----------------------------
(***************************************************************************)
(* A model of src/main.py, the LinkedIn job scraper: get_job_ids (the      *)
(* listing fetcher), scrape_job_details (the detail fetcher) and main (the *)
(* orchestrator).                                                          *)
(*                                                                         *)
(* Python strings are sequences of one-character strings, so that          *)
(* str.split and str.strip are computed and not assumed.  None is a value  *)
(* no string equals.  A call that may raise returns [exc, val]: exc is the *)
(* class of the exception that left the call, NoExc when it returned val.  *)
(* The two HTTP endpoints are the environment: what they answer is an      *)
(* input, [conn_error, status_code, ...body].                              *)
(***************************************************************************)
EXTENDS Naturals, Sequences, FiniteSets

VARIABLES
    pc,             \* the position of the running function
    list_response,  \* what the listing endpoint answered (None before the call)
    id_list,        \* main: id_list
    job_id,         \* main: the loop's job_id; scrape_job_details' argument
    job_response,   \* what the detail endpoint answered to the last request
    loop_i,         \* main: the loop's i, the iterations begun
    job_details,    \* what scrape_job_details returned last
    job_list,       \* main: job_list
    net,            \* the outbound activity so far: requests, appends, sleeps
    csv,            \* the output file: NoFile, or [header, rows]
    writes,         \* how many times to_csv ran
    report,         \* what main printed last about its result
    raised          \* the exception that left a function uncaught, or NoExc

vars == <<pc, list_response, id_list, job_id, job_response, loop_i, job_details,
          job_list, net, csv, writes, report, raised>>

---------------------------------------------------------------------------
(* Bounds of the model.                                                    *)

\* list items of a listing page, in the listing fetcher's own specification
MaxItems == 3
\* list items of the listing page of a whole run
MaxJobs == 2
\* random.uniform draws a multiple of 1/DelayResolution of the interval
DelayResolution == 1

---------------------------------------------------------------------------
(* Python values.                                                          *)

None == <<"None">>
NoExc == "NoExc"
NoFile == [exists |-> FALSE, header |-> <<>>, rows |-> <<>>]

Some(x) == <<x>>
Returns(v) == [exc |-> NoExc, val |-> v]
Raises(e) == [exc |-> e, val |-> None]

\* isinstance(exc, cls) for the exception classes the code raises or names:
\* requests' ConnectionError and HTTPError derive from RequestException.
IsInstance(exc, cls) ==
    \/ exc = cls
    \/ cls = "RequestException" /\ exc \in {"ConnectionError", "HTTPError"}

\* an except clause naming the classes of `classes` handles exc
Handles(classes, exc) == \E c \in classes : IsInstance(exc, c)

\* bool(x) of a str or None: None and "" are false
Truthy(x) == x # None /\ x # <<>>

IsSpace(c) == c \in {" ", "\t", "\n"}

RECURSIVE lstrip(_)
lstrip(s) ==
    IF s = <<>> THEN s
    ELSE IF IsSpace(Head(s)) THEN lstrip(Tail(s)) ELSE s

RECURSIVE rstrip(_)
rstrip(s) ==
    IF s = <<>> THEN s
    ELSE IF IsSpace(s[Len(s)]) THEN rstrip(SubSeq(s, 1, Len(s) - 1)) ELSE s

\* str.strip()
strip(s) == rstrip(lstrip(s))

\* str.split(sep), sep one character: always at least one segment
RECURSIVE split(_, _)
split(s, sep) ==
    IF \E i \in 1..Len(s) : s[i] = sep
    THEN LET i == CHOOSE k \in 1..Len(s) :
                    s[k] = sep /\ \A j \in 1..(k - 1) : s[j] # sep
         IN  <<SubSeq(s, 1, i - 1)>> \o split(SubSeq(s, i + 1, Len(s)), sep)
    ELSE <<s>>

\* seq[n] with Python's zero-based n
GetItem(seq, n) ==
    IF n + 1 \in 1..Len(seq) THEN Returns(seq[n + 1]) ELSE Raises("IndexError")

\* requests.get: a connection error raises, any status comes back as a response
requests_get(response) ==
    IF response.conn_error THEN Raises("ConnectionError") ELSE Returns(response)

\* the status is never looked at
raise_for_status_Never(response) == Returns(None)

\* Response.raise_for_status()
raise_for_status(response) ==
    IF response.status_code >= 400 /\ response.status_code < 600
    THEN Raises("HTTPError") ELSE Returns(None)

\* bs4: a searched class matches a tag whose class tokens hold it, or whose
\* whole class attribute is the searched string
ClassMatches(tokens, wanted) ==
    \/ Len(wanted) = 1 /\ \E i \in 1..Len(tokens) : tokens[i] = wanted[1]
    \/ tokens = wanted

\* Tag.find(name, {"class": wanted}) over the descendants in document
\* order: Some(first match) or <<>>
find(elems, name, wanted) ==
    LET hit(i) == elems[i].name = name /\ ClassMatches(elems[i].class, wanted)
    IN  IF \E i \in 1..Len(elems) : hit(i)
        THEN Some(elems[CHOOSE i \in 1..Len(elems) :
                            hit(i) /\ \A j \in 1..(i - 1) : ~hit(j)])
        ELSE <<>>

---------------------------------------------------------------------------
(* get_job_ids.                                                            *)

\* a per-element except clause that names AttributeError alone
ElementHandler_NoIndexError == {"AttributeError"}

\* the classes of the per-element except clause
ElementHandler == {"AttributeError", "IndexError"}

\* the body of the per-element try: Some(job_id), <<>> when the element is
\* passed over, or the exception raised
ExtractJobId(job) ==
    LET base_card_div == find(job, "div", <<"base-card">>)
    IN  IF base_card_div # <<>> /\ Truthy(base_card_div[1].urn)
        THEN LET seg == GetItem(split(base_card_div[1].urn, ":"), 3)
             IN  IF seg.exc = NoExc THEN Returns(Some(seg.val)) ELSE seg
        ELSE Returns(<<>>)

\* the for loop over page_jobs
RECURSIVE ExtractIds(_, _)
ExtractIds(page_jobs, ids) ==
    IF page_jobs = <<>> THEN Returns(ids)
    ELSE LET r == ExtractJobId(Head(page_jobs))
         IN  IF r.exc = NoExc
             THEN ExtractIds(Tail(page_jobs), ids \o r.val)
             ELSE IF Handles(ElementHandler, r.exc)
                  THEN ExtractIds(Tail(page_jobs), ids)
                  ELSE Raises(r.exc)

\* the body of the outer try
ListingBody(response) ==
    LET got == requests_get(response)
    IN  IF got.exc # NoExc THEN got
        ELSE LET st == raise_for_status(got.val)
             IN  IF st.exc # NoExc THEN st
                 ELSE ExtractIds(got.val.items, <<>>)

\* an except clause that names ConnectionError alone
get_job_ids_StatusEscapes(response) ==
    LET r == ListingBody(response)
    IN  IF r.exc = NoExc THEN r
        ELSE IF Handles({"ConnectionError"}, r.exc) THEN Returns(<<>>)
             ELSE r

get_job_ids(response) ==
    LET r == ListingBody(response)
    IN  IF r.exc = NoExc THEN r
        ELSE IF Handles({"RequestException"}, r.exc) THEN Returns(<<>>)
             ELSE r

---------------------------------------------------------------------------
(* scrape_job_details.                                                     *)

\* a dict is the sequence of its <<key, value>> pairs in insertion order
DictKeys(d) == [i \in 1..Len(d) |-> d[i][1]]

DictHas(d, k) == \E i \in 1..Len(d) : d[i][1] = k

DictGet(d, k) == d[CHOOSE i \in 1..Len(d) : d[i][1] = k][2]

\* d[k] = v: the value of an old key is replaced in place, a new key goes
\* to the end (old is d, evaluated once)
DictSet(d, k, v) ==
    CHOOSE new \in
        { IF DictHas(old, k)
          THEN [n \in 1..Len(old) |-> IF old[n][1] = k THEN <<k, v>> ELSE old[n]]
          ELSE Append(old, <<k, v>>) : old \in {d} } : TRUE

\* the tag name and class string each field is looked up by, in the order
\* the code extracts them
FieldLookups == <<
    [key |-> "job_title", name |-> "h2",
     class |-> <<"top-card-layout__title", "font-sans", "text-lg",
                 "papabear:text-xl", "font-bold", "leading-open",
                 "text-color-text", "mb-0", "topcard__title">>],
    [key |-> "company_name", name |-> "a",
     class |-> <<"topcard__org-name-link", "topcard__flavor--black-link">>],
    [key |-> "time_posted", name |-> "span",
     class |-> <<"posted-time-ago__text", "topcard__flavor--metadata">>],
    [key |-> "num_applicants", name |-> "span",
     class |-> <<"num-applicants__caption", "topcard__flavor--metadata",
                 "topcard__flavor--bullet">>],
    [key |-> "location", name |-> "span",
     class |-> <<"topcard__flavor", "topcard__flavor--bullet">> ] >>

\* bool(tag) of a bs4 Tag is True whatever it holds; bool(None) is False
TagTruthy(elem) == elem # <<>>

\* Tag.text: the text below the tag, "" when there is none (never None)
TagText(elem) == Returns(elem[1].text)

\* elem.text.strip() if elem else None
FieldExpr(elem) ==
    IF TagTruthy(elem)
    THEN LET t == TagText(elem)
         IN  IF t.exc # NoExc THEN t
             ELSE IF t.val = None THEN Raises("AttributeError")
                  ELSE Returns(strip(t.val))
    ELSE Returns(None)

\* one field's try/except AttributeError
ExtractField(job_soup, lookup) ==
    LET r == FieldExpr(find(job_soup, lookup.name, lookup.class))
    IN  IF r.exc = NoExc THEN r
        ELSE IF Handles({"AttributeError"}, r.exc) THEN Returns(None)
             ELSE r

\* one try around the five lookups: the first field without an element
\* leaves the fields after it null
RECURSIVE ExtractFields_OneTry(_, _, _)
ExtractFields_OneTry(job_soup, lookups, job_post) ==
    IF lookups = <<>> THEN Returns(job_post)
    ELSE IF find(job_soup, Head(lookups).name, Head(lookups).class) = <<>>
         THEN Returns(job_post \o
                      [k \in 1..Len(lookups) |-> <<lookups[k].key, None>>])
         ELSE ExtractFields_OneTry(job_soup, Tail(lookups),
                  DictSet(job_post, Head(lookups).key,
                          ExtractField(job_soup, Head(lookups)).val))

\* the five lookups in order, each setting its key of job_post
RECURSIVE ExtractFields(_, _, _)
ExtractFields(job_soup, lookups, job_post) ==
    IF lookups = <<>> THEN Returns(job_post)
    ELSE LET r == ExtractField(job_soup, Head(lookups))
         IN  IF r.exc # NoExc THEN r
             ELSE ExtractFields(job_soup, Tail(lookups),
                                DictSet(job_post, Head(lookups).key, r.val))

\* the dict the except clause returns
FailedRecord(id) ==
    << <<"job_id", id>>, <<"job_title", None>>, <<"company_name", None>>,
       <<"time_posted", None>>, <<"num_applicants", None>>,
       <<"location", None>> >>

\* the body of the try
DetailBody(id, response) ==
    LET got == requests_get(response)
    IN  IF got.exc # NoExc THEN got
        ELSE LET st == raise_for_status(got.val)
             IN  IF st.exc # NoExc THEN st
                 ELSE ExtractFields(got.val.doc, FieldLookups,
                                    << <<"job_id", id>> >>)

\* no except clause around the request
scrape_job_details_NoExcept(id, response) == DetailBody(id, response)

scrape_job_details(id, response) ==
    LET r == DetailBody(id, response)
    IN  IF r.exc = NoExc THEN r
        ELSE IF Handles({"RequestException"}, r.exc)
             THEN Returns(FailedRecord(id))
             ELSE r

---------------------------------------------------------------------------
(* main.                                                                   *)

\* start = 0
start == 0

\* random.uniform(1, 3): a + (b - a) * random(), in units of
\* 1/DelayResolution second
UniformLow == 1
UniformHigh == 3
Delays == { UniformLow * DelayResolution + (UniformHigh - UniformLow) * r :
            r \in 0..DelayResolution }

\* pd.DataFrame(list of dicts): the columns are the keys in the order they
\* are first met, a key a dict lacks reads as missing
\* (seen is cols, evaluated once)
RECURSIVE Columns(_, _)
Columns(records, cols) ==
    IF records = <<>> THEN cols
    ELSE Columns(Tail(records),
                 CHOOSE all \in
                    { seen \o SelectSeq(DictKeys(Head(records)),
                         LAMBDA k : \A n \in 1..Len(seen) : seen[n] # k)
                      : seen \in {cols} } : TRUE)

\* to_csv writes a missing value as an empty cell
Cell(d, k) ==
    IF DictHas(d, k) /\ DictGet(d, k) # None THEN DictGet(d, k) ELSE <<>>

\* the rows whose every extracted field is missing are dropped first
to_csv_DropEmpty(records) ==
    CHOOSE file \in
        { [exists |-> TRUE,
           header |-> Columns(kept, <<>>),
           rows |-> [n \in 1..Len(kept) |->
                       [c \in 1..Len(kept[n]) |-> Cell(kept[n], kept[n][c][1])]]]
          : kept \in { SelectSeq(records, LAMBDA d :
                            \E k \in 2..Len(d) : d[k][2] # None) } } : TRUE

\* DataFrame(job_list).to_csv(output_filename, index=False)
to_csv(records) ==
    CHOOSE file \in
        { [exists |-> TRUE,
           header |-> cols,
           rows |-> [n \in 1..Len(records) |->
                       [c \in 1..Len(cols) |-> Cell(records[n], cols[c])]]]
          : cols \in { Columns(records, <<>>) } } : TRUE

\* jobs_df[k].notna().sum()
NotNa(records, k) ==
    Cardinality({i \in 1..Len(records) : DictGet(records[i], k) # None})

Summary(records) ==
    [msg |-> "Data saved",
     total |-> Len(records),
     titles |-> NotNa(records, "job_title"),
     companies |-> NotNa(records, "company_name"),
     applicants |-> NotNa(records, "num_applicants")]

Quiet(m) == [msg |-> m, total |-> 0, titles |-> 0, companies |-> 0,
             applicants |-> 0]

---------------------------------------------------------------------------
(* What the endpoints may answer.                                          *)

NoResponse == [conn_error |-> FALSE, status_code |-> 0]

Div(class, urn) == [name |-> "div", class |-> class, urn |-> urn]

\* "urn:li:jobPosting:<id>", its first three segments shortened to a letter
Urn3 == <<"u", ":", "l", ":", "j">>
UrnOf(id) == Urn3 \o <<":">> \o id

\* list items: each the sequence of the div elements below it
UnrelatedItems == {
    <<>>,
    << Div(<<"other-card">>, UrnOf(<<"9">>)) >> }

MalformedItems == {
    << Div(<<"base-card">>, None) >>,
    << Div(<<"base-card">>, <<>>) >>,
    << Div(<<"base-card">>, <<"u">>) >>,
    << Div(<<"base-card">>, Urn3) >>,
    << Div(<<"base-card">>, None), Div(<<"base-card">>, UrnOf(<<"2">>)) >> }

ValidItems == {
    << Div(<<"base-card">>, UrnOf(<<"1">>)) >>,
    << Div(<<"base-card", "relative">>, UrnOf(<<"2">>)) >>,
    << Div(<<"base-card">>, UrnOf(<<"1", ":", "x">>)) >>,
    << Div(<<"base-card">>, UrnOf(<<>>)) >>,
    << Div(<<"other-card">>, UrnOf(<<"9">>)),
       Div(<<"base-card">>, UrnOf(<<"2">>)) >>,
    << Div(<<"base-card">>, UrnOf(<<"1">>)), Div(<<"base-card">>, Urn3) >> }

ListItems == UnrelatedItems \cup MalformedItems \cup ValidItems

SeqsUpTo(S, n) == UNION { [1..k -> S] : k \in 0..n }

OkStatus == 200
\* statuses raise_for_status raises for
FailStatuses == {404, 429, 503}
\* statuses that are not a success and that raise_for_status lets pass: a
\* redirection requests does not follow, and the 999 of a denied request
OtherStatuses == {300, 999}

Listing(conn, status, items) ==
    [conn_error |-> conn, status_code |-> status, items |-> items]

OnePage == << << Div(<<"base-card">>, UrnOf(<<"1">>)) >> >>

FailedListings ==
    { Listing(TRUE, 0, <<>>) } \cup
    { Listing(FALSE, st, OnePage) : st \in FailStatuses \cup OtherStatuses }

ListResponses ==
    { Listing(FALSE, OkStatus, items) : items \in SeqsUpTo(ListItems, MaxItems) }
    \cup FailedListings

\* detail pages: for each field one fragment, the fragments in the order of
\* the lookups or in the opposite order
Elem(name, class, text) == [name |-> name, class |-> class, text |-> text]

FieldText == [k \in {"job_title", "company_name", "time_posted",
                     "num_applicants", "location"} |->
    CASE k = "job_title"      -> <<"\n", " ", "T", " ", "d", "\n">>
      [] k = "company_name"   -> <<"C">>
      [] k = "time_posted"    -> <<" ", "2", " ", "h">>
      [] k = "num_applicants" -> <<"9", "\t">>
      [] k = "location"       -> <<"L", " ">>]

Fragments(l) ==
    LET e == Elem(l.name, l.class, FieldText[l.key])
        blank == Elem(l.name, l.class, <<" ", "\n">>)
        empty == Elem(l.name, l.class, <<>>)
        decoy == Elem(l.name, <<l.class[1]>>, <<"x">>)
    IN  { <<>>, <<e>>, <<blank>>, <<empty>>, <<decoy>>, <<decoy, e>>,
          <<e, blank>> }

Reverse(seq) == [k \in 1..Len(seq) |-> seq[Len(seq) + 1 - k]]

\* the fragments of the fields of `lookups`, one after the other
RECURSIVE Concats(_)
Concats(lookups) ==
    IF lookups = <<>> THEN { <<>> }
    ELSE { f \o rest : f \in Fragments(Head(lookups)),
                       rest \in Concats(Tail(lookups)) }

Pages == Concats(FieldLookups) \cup { Reverse(d) : d \in Concats(FieldLookups) }

Detail(conn, status, doc) ==
    [conn_error |-> conn, status_code |-> status, doc |-> doc]

FullPage ==
    [k \in 1..Len(FieldLookups) |->
        Elem(FieldLookups[k].name, FieldLookups[k].class,
             FieldText[FieldLookups[k].key])]

FailedDetails ==
    { Detail(TRUE, 0, <<>>) } \cup
    { Detail(FALSE, st, FullPage) : st \in FailStatuses \cup OtherStatuses }

DetailResponses ==
    { Detail(FALSE, OkStatus, doc) : doc \in Pages }
    \cup FailedDetails

JobIds == { <<"1">>, <<"2">> }

---------------------------------------------------------------------------
(* get_job_ids and scrape_job_details on their own: the response is drawn  *)
(* at the start, the call is one step.                                     *)

InitListing ==
    /\ pc = "get_job_ids"
    /\ list_response \in ListResponses
    /\ id_list = <<>>
    /\ job_id = None
    /\ job_response = NoResponse
    /\ loop_i = 0
    /\ job_details = <<>>
    /\ job_list = <<>>
    /\ net = <<>>
    /\ csv = NoFile
    /\ writes = 0
    /\ report = Quiet("")
    /\ raised = NoExc

CallGetJobIds ==
    /\ pc = "get_job_ids"
    /\ LET r == get_job_ids(list_response)
       IN  /\ raised' = r.exc
           /\ id_list' = IF r.exc = NoExc THEN r.val ELSE id_list
    /\ pc' = "returned"
    /\ UNCHANGED <<list_response, job_id, job_response, loop_i, job_details,
                   job_list, net, csv, writes, report>>

NextListing == CallGetJobIds

SpecListing == InitListing /\ [][NextListing]_vars

InitDetail ==
    /\ pc = "scrape_job_details"
    /\ job_id \in JobIds
    /\ job_response \in DetailResponses
    /\ list_response = NoResponse
    /\ id_list = <<>>
    /\ loop_i = 0
    /\ job_details = <<>>
    /\ job_list = <<>>
    /\ net = <<>>
    /\ csv = NoFile
    /\ writes = 0
    /\ report = Quiet("")
    /\ raised = NoExc

CallScrapeJobDetails ==
    /\ pc = "scrape_job_details"
    /\ LET r == scrape_job_details(job_id, job_response)
       IN  /\ raised' = r.exc
           /\ job_details' = IF r.exc = NoExc THEN r.val ELSE job_details
    /\ pc' = "returned"
    /\ UNCHANGED <<list_response, id_list, job_id, job_response, loop_i, job_list,
                   net, csv, writes, report>>

NextDetail == CallScrapeJobDetails

SpecDetail == InitDetail /\ [][NextDetail]_vars

---------------------------------------------------------------------------
(* main: one run of the program.  The positions are the blocking calls:    *)
(* the listing request, each detail request, each sleep, and the save.     *)

\* the list items a run's listing page is made of
RunItems == {
    << Div(<<"base-card">>, UrnOf(<<"1">>)) >>,
    << Div(<<"base-card", "relative">>, UrnOf(<<"2">>)) >>,
    << Div(<<"base-card">>, Urn3) >> }

RunListings ==
    { Listing(FALSE, OkStatus, items) : items \in SeqsUpTo(RunItems, MaxJobs) }
    \cup FailedListings

\* a detail page with no applicant count and a title without text
PartPage ==
    << Elem(FieldLookups[5].name, FieldLookups[5].class, FieldText["location"]),
       Elem(FieldLookups[1].name, FieldLookups[1].class, <<" ">>),
       Elem(FieldLookups[2].name, FieldLookups[2].class,
            FieldText["company_name"]) >>

RunDetails ==
    { Detail(FALSE, OkStatus, FullPage), Detail(FALSE, OkStatus, PartPage),
      Detail(FALSE, 404, FullPage), Detail(FALSE, 999, FullPage),
      Detail(TRUE, 0, <<>>) }

ListRequest == [op |-> "GET list", start |-> start]
DetailRequest(id) == [op |-> "GET detail", job_id |-> id]
Appended(record) == [op |-> "append", record |-> record]
Slept(delay) == [op |-> "sleep", delay |-> delay]

Init ==
    /\ pc = "main"
    /\ list_response = NoResponse
    /\ id_list = <<>>
    /\ job_id = None
    /\ job_response = NoResponse
    /\ loop_i = 0
    /\ job_details = <<>>
    /\ job_list = <<>>
    /\ net = <<>>
    /\ csv = NoFile
    /\ writes = 0
    /\ report = Quiet("")
    /\ raised = NoExc

\* main without its early return
FetchJobIds_NoEarlyReturn ==
    /\ pc = "main"
    /\ \E response \in RunListings :
         \E r \in { get_job_ids(response) } :
             /\ list_response' = response
             /\ net' = Append(net, ListRequest)
             /\ raised' = r.exc
             /\ IF r.exc # NoExc
                THEN pc' = "crashed" /\ UNCHANGED id_list
                ELSE pc' = "for" /\ id_list' = r.val
    /\ UNCHANGED <<job_id, job_response, loop_i, job_details, job_list, csv,
                   writes, report>>

\* id_list = get_job_ids(title, location, start); if not id_list: return
FetchJobIds ==
    /\ pc = "main"
    /\ \E response \in RunListings :
         \E r \in { get_job_ids(response) } :
             /\ list_response' = response
             /\ net' = Append(net, ListRequest)
             /\ raised' = r.exc
             /\ IF r.exc # NoExc
                THEN /\ pc' = "crashed"
                     /\ UNCHANGED <<id_list, report>>
                ELSE /\ id_list' = r.val
                     /\ IF r.val = <<>>
                        THEN pc' = "done" /\ report' = Quiet("No job IDs found")
                        ELSE pc' = "for" /\ UNCHANGED report
    /\ UNCHANGED <<job_id, job_response, loop_i, job_details, job_list, csv,
                   writes>>

\* a loop that keeps a record only when a title was found
ScrapeJob_SkipFailed ==
    /\ pc = "for"
    /\ loop_i < Len(id_list)
    /\ loop_i' = loop_i + 1
    /\ job_id' = id_list[loop_i + 1]
    /\ \E response \in RunDetails :
         \E r \in { scrape_job_details(id_list[loop_i + 1], response) } :
             /\ job_response' = response
             /\ raised' = r.exc
             /\ pc' = "sleep"
             /\ job_details' = r.val
             /\ IF DictGet(r.val, "job_title") # None
                THEN /\ job_list' = Append(job_list, r.val)
                     /\ net' = net \o << DetailRequest(id_list[loop_i + 1]),
                                         Appended(r.val) >>
                ELSE /\ job_list' = job_list
                     /\ net' = Append(net, DetailRequest(id_list[loop_i + 1]))
    /\ UNCHANGED <<list_response, id_list, csv, writes, report>>

\* the for loop takes the next job_id: job_details = scrape_job_details(job_id);
\* job_list.append(job_details)
ScrapeJob ==
    /\ pc = "for"
    /\ loop_i < Len(id_list)
    /\ loop_i' = loop_i + 1
    /\ job_id' = id_list[loop_i + 1]
    /\ \E response \in RunDetails :
         \E r \in { scrape_job_details(id_list[loop_i + 1], response) } :
             /\ job_response' = response
             /\ raised' = r.exc
             /\ IF r.exc # NoExc
                THEN /\ pc' = "crashed"
                     /\ net' = Append(net, DetailRequest(id_list[loop_i + 1]))
                     /\ UNCHANGED <<job_details, job_list>>
                ELSE /\ pc' = "sleep"
                     /\ job_details' = r.val
                     /\ job_list' = Append(job_list, r.val)
                     /\ net' = net \o << DetailRequest(id_list[loop_i + 1]),
                                         Appended(r.val) >>
    /\ UNCHANGED <<list_response, id_list, csv, writes, report>>

\* a sleep between two items only
Sleep_NotAfterLast ==
    /\ pc = "sleep"
    /\ IF loop_i < Len(id_list)
       THEN \E delay \in Delays : net' = Append(net, Slept(delay))
       ELSE net' = net
    /\ pc' = "for"
    /\ UNCHANGED <<list_response, id_list, job_id, job_response, loop_i,
                   job_details, job_list, csv, writes, report, raised>>

\* delay = random.uniform(1, 3); time.sleep(delay)
Sleep ==
    /\ pc = "sleep"
    /\ \E delay \in Delays : net' = Append(net, Slept(delay))
    /\ pc' = "for"
    /\ UNCHANGED <<list_response, id_list, job_id, job_response, loop_i,
                   job_details, job_list, csv, writes, report, raised>>

\* the for loop is exhausted: if job_list: ... to_csv ... else: print
SaveData ==
    /\ pc = "for"
    /\ loop_i >= Len(id_list)
    /\ IF job_list # <<>>
       THEN /\ csv' = to_csv(job_list)
            /\ writes' = writes + 1
            /\ report' = Summary(job_list)
       ELSE /\ report' = Quiet("No job data was successfully scraped.")
            /\ UNCHANGED <<csv, writes>>
    /\ pc' = "done"
    /\ UNCHANGED <<list_response, id_list, job_id, job_response, loop_i,
                   job_details, job_list, net, raised>>

Next == FetchJobIds \/ ScrapeJob \/ Sleep \/ SaveData

Spec == Init /\ [][Next]_vars

\* the program is one thread that runs until it returns: every request is
\* answered, by a response or by a connection error, and every sleep ends
FairSpec == Spec /\ WF_vars(Next)

---------------------------------------------------------------------------
(* The listing fetcher's contract.                                         *)

Succeeded(response) == ~response.conn_error /\ response.status_code = OkStatus
\* no connection, or a client or server error status (4xx, 5xx)
Failed(response) ==
    \/ response.conn_error
    \/ response.status_code \in 400..599

\* no connection, or a status that is not a success (2xx)
NonSuccess(response) ==
    \/ response.conn_error
    \/ response.status_code \notin 200..299

Colons(s) == { k \in 1..Len(s) : s[k] = ":" }

\* the k-th colon of s, Len(s) + 1 when s has fewer
ColonAt(s, k) ==
    IF Cardinality(Colons(s)) >= k
    THEN CHOOSE p \in Colons(s) : Cardinality({ q \in Colons(s) : q < p }) = k - 1
    ELSE Len(s) + 1

IsBaseCard(div) == div.name = "div" /\ \E t \in 1..Len(div.class) : div.class[t] = "base-card"

HasCard(item) == \E k \in 1..Len(item) : IsBaseCard(item[k])

\* the item's base-card div: the first below it in document order
CardOf(item) ==
    item[CHOOSE k \in 1..Len(item) :
            IsBaseCard(item[k]) /\ \A j \in 1..(k - 1) : ~IsBaseCard(item[j])]

\* a structurally valid entry: its base-card div carries a data-entity-urn
\* of at least four colon-separated segments
StructurallyValid(item) ==
    /\ HasCard(item)
    /\ CardOf(item).urn # None
    /\ Cardinality(Colons(CardOf(item).urn)) >= 3

\* what lies between the third colon and the fourth (or the end)
FourthSegment(urn) == SubSeq(urn, ColonAt(urn, 3) + 1, ColonAt(urn, 4) - 1)

RECURSIVE ExpectedIds(_)
ExpectedIds(items) ==
    IF items = <<>> THEN <<>>
    ELSE (IF StructurallyValid(Head(items))
          THEN << FourthSegment(CardOf(Head(items)).urn) >> ELSE <<>>)
         \o ExpectedIds(Tail(items))

ValidCount(items) ==
    Cardinality({ k \in 1..Len(items) : StructurallyValid(items[k]) })

\* C1: for a successful listing response with N structurally valid entries
\* and M malformed or unrelated list items, get_job_ids raises nothing and
\* returns exactly N identifiers: the fourth colon-separated segment of each
\* valid entry's attribute, in document order.  An entry's base-card div is
\* the first one below the list item.
C1_ListingIds ==
    (pc = "returned" /\ Succeeded(list_response)) =>
        /\ raised = NoExc
        /\ Len(id_list) = ValidCount(list_response.items)
        /\ id_list = ExpectedIds(list_response.items)

\* a page of a valid entry, a malformed one (three segments) and another
\* valid entry with another identifier has been read
C1_Witness ==
    /\ pc = "returned"
    /\ Succeeded(list_response)
    /\ Len(list_response.items) = 3
    /\ StructurallyValid(list_response.items[1])
    /\ HasCard(list_response.items[2])
    /\ CardOf(list_response.items[2]).urn = Urn3
    /\ StructurallyValid(list_response.items[3])
    /\ id_list = << <<"2">>, <<"1">> >>

---------------------------------------------------------------------------
(* The detail fetcher's contract.                                          *)

ExtractedKeys == <<"job_title", "company_name", "time_posted",
                   "num_applicants", "location">>

RecordKeys == <<"job_id">> \o ExtractedKeys

LookupOf(key) ==
    FieldLookups[CHOOSE k \in 1..Len(FieldLookups) : FieldLookups[k].key = key]

\* the elements of the page that are the field's: its tag name and its
\* class attribute
ElementsOf(doc, key) ==
    SelectSeq(doc, LAMBDA e : /\ e.name = LookupOf(key).name
                              /\ e.class = LookupOf(key).class)

Missing(doc, key) == ElementsOf(doc, key) = <<>>

NoText(text) == \A k \in 1..Len(text) : text[k] \in {" ", "\t", "\n"}

HasSixKeys(record) ==
    /\ Len(record) = 6
    /\ \A k \in 1..6 : record[k][1] = RecordKeys[k]

AllNull(record) ==
    \A k \in 1..Len(ExtractedKeys) : DictGet(record, ExtractedKeys[k]) = None

\* C2: for a successful detail response, with S the fields whose element is
\* missing from the page, scrape_job_details raises nothing and returns one
\* record of all six keys, job_id the input identifier, exactly the fields
\* of S null; and each field's value is what the page stripped of the other
\* fields' elements gives for it.
C2_MissingFieldsNull ==
    (pc = "returned" /\ Succeeded(job_response)) =>
        /\ raised = NoExc
        /\ HasSixKeys(job_details)
        /\ DictGet(job_details, "job_id") = job_id
        /\ \A k \in 1..Len(ExtractedKeys) :
             LET key == ExtractedKeys[k]
                 alone == Detail(FALSE, OkStatus, ElementsOf(job_response.doc, key))
             IN  /\ Missing(job_response.doc, key)
                        <=> DictGet(job_details, key) = None
                 /\ DictGet(job_details, key)
                        = DictGet(scrape_job_details(job_id, alone).val, key)

\* a page without its title and its applicant count, the three other fields
\* there, has been read
C2_Witness ==
    /\ pc = "returned"
    /\ Succeeded(job_response)
    /\ { ExtractedKeys[k] : k \in { j \in 1..5 :
            Missing(job_response.doc, ExtractedKeys[j]) } }
         = {"job_title", "num_applicants"}
    /\ DictGet(job_details, "company_name") = <<"C">>
    /\ DictGet(job_details, "time_posted") = <<"2", " ", "h">>
    /\ DictGet(job_details, "location") = <<"L">>
    /\ DictGet(job_details, "job_title") = None

\* C3: when a field's element is there and has no text (empty, or white
\* space alone), the field is null in the record.
C3_NoTextIsNull ==
    (pc = "returned" /\ Succeeded(job_response)) =>
        \A k \in 1..Len(ExtractedKeys) :
            LET mine == ElementsOf(job_response.doc, ExtractedKeys[k])
            IN  (mine # <<>> /\ NoText(mine[1].text))
                    => DictGet(job_details, ExtractedKeys[k]) = None

\* C5 as stated: when the detail request fails (no connection, or a status
\* that is not a success), scrape_job_details raises nothing and returns a
\* record of all six keys: job_id the input identifier, the five other
\* fields null.
C5_NonSuccessDetailRecord ==
    (pc = "returned" /\ NonSuccess(job_response)) =>
        /\ raised = NoExc
        /\ HasSixKeys(job_details)
        /\ DictGet(job_details, "job_id") = job_id
        /\ AllNull(job_details)

\* C5 amended: when the detail request fails with no connection or with a
\* 4xx or 5xx status, scrape_job_details raises nothing and returns a record
\* of all six keys: job_id the input identifier, the five other fields
\* null.
C5_FailedDetailRecord ==
    (pc = "returned" /\ Failed(job_response)) =>
        /\ raised = NoExc
        /\ HasSixKeys(job_details)
        /\ DictGet(job_details, "job_id") = job_id
        /\ AllNull(job_details)

\* an error status came back with a full page as its body
C5_Witness ==
    /\ pc = "returned"
    /\ ~job_response.conn_error
    /\ job_response.status_code = 404
    /\ job_response.doc = FullPage
    /\ HasSixKeys(job_details)
    /\ job_id = <<"2">>

---------------------------------------------------------------------------
(* The orchestrator.                                                       *)

NoValidEntry(response) ==
    Succeeded(response) /\ ValidCount(response.items) = 0

\* where a run that found no identifier ends
StoppedEarly ==
    /\ pc = "done"
    /\ raised = NoExc
    /\ id_list = <<>>
    /\ net = << [op |-> "GET list", start |-> 0] >>
    /\ loop_i = 0
    /\ job_details = <<>>
    /\ job_list = <<>>
    /\ csv = NoFile
    /\ writes = 0
    /\ report.msg = "No job IDs found"

\* C4 as stated: when the listing request fails (no connection, or a status
\* that is not a success), get_job_ids returns the empty sequence and raises
\* nothing, and main ends in the state it ends in after a successful
\* listing page without a valid entry.
C4_NonSuccessListingIsEmpty ==
    /\ (pc # "main" /\ NonSuccess(list_response))
           => (StoppedEarly /\ get_job_ids(list_response) = Returns(<<>>))
    /\ (pc # "main" /\ NoValidEntry(list_response)) => StoppedEarly

\* C4 amended: when the listing request fails with no connection or with a
\* 4xx or 5xx status, get_job_ids returns the empty sequence and raises
\* nothing, and main ends in the state it ends in after a successful
\* listing page without a valid entry.
C4_FailedListingIsEmpty ==
    /\ (pc # "main" /\ Failed(list_response))
           => (StoppedEarly /\ get_job_ids(list_response) = Returns(<<>>))
    /\ (pc # "main" /\ NoValidEntry(list_response)) => StoppedEarly

\* the listing endpoint answered an error status with a page of one entry
C4_Witness ==
    /\ pc = "done"
    /\ ~list_response.conn_error
    /\ list_response.status_code = 503
    /\ list_response.items # <<>>

Ops(op) == { k \in 1..Len(net) : net[k].op = op }

\* C6: when get_job_ids returns the empty sequence, main is over: no detail
\* request, no sleep, no output file.
C6_EmptyEndsRun ==
    (pc # "main" /\ raised = NoExc /\ id_list = <<>>) =>
        /\ pc = "done"
        /\ Ops("GET detail") = {}
        /\ Ops("sleep") = {}
        /\ ~csv.exists
        /\ writes = 0

\* a successful listing page of malformed entries only ended the run
C6_Witness ==
    /\ pc = "done"
    /\ Succeeded(list_response)
    /\ Len(list_response.items) >= 2
    /\ id_list = <<>>

\* a record as a row of the file: the six columns, a null as an empty cell
RowOf(record) ==
    [c \in 1..6 |-> IF record[c][2] = None THEN <<>> ELSE record[c][2]]

\* the record appended in the k-th iteration
AppendedAt(k) == net[3 * k].record

\* C7: for a non-empty id_list the file holds the header row of the six
\* column names and Len(id_list) data rows, row k the record returned for
\* id_list[k], with id_list[k] in its first column: in discovery order, a
\* row for each duplicate, the rows of failed fetches kept.
C7_FileRows ==
    (pc = "done" /\ id_list # <<>>) =>
        /\ csv.exists
        /\ csv.header = RecordKeys
        /\ Len(csv.rows) = Len(id_list)
        /\ \A k \in 1..Len(id_list) :
             /\ csv.rows[k] = RowOf(AppendedAt(k))
             /\ csv.rows[k] = RowOf(job_list[k])
             /\ csv.rows[k][1] = id_list[k]

\* twice the same identifier: the first fetch failed, the second gave a
\* full record
C7_Witness ==
    /\ pc = "done"
    /\ Len(id_list) = 2
    /\ id_list[1] = id_list[2]
    /\ csv.rows[1] = << id_list[1], <<>>, <<>>, <<>>, <<>>, <<>> >>
    /\ \A c \in 1..6 : csv.rows[2][c] # <<>>

\* C9: the outbound activity is the listing request with offset 0, then for
\* each identifier in order its detail request, the append of its record
\* and a sleep of 1 to 3 seconds: nothing else, nothing twice, and as many
\* sleeps as identifiers once the run is over.
C9_OutboundActivity ==
    pc # "main" =>
        /\ Len(net) >= 1
        /\ net[1] = [op |-> "GET list", start |-> 0]
        /\ \A k \in 2..Len(net) :
             LET n == ((k - 2) \div 3) + 1
                 step == (k - 2) % 3
             IN  /\ n <= Len(id_list)
                 /\ step = 0 => net[k] = [op |-> "GET detail", job_id |-> id_list[n]]
                 /\ step = 1 => /\ net[k].op = "append"
                                /\ DictGet(net[k].record, "job_id") = id_list[n]
                 /\ step = 2 => /\ net[k].op = "sleep"
                                /\ net[k].delay >= 1 * DelayResolution
                                /\ net[k].delay <= 3 * DelayResolution
        /\ pc = "sleep" => Len(net) = 3 * loop_i
        /\ pc = "for" => Len(net) = 3 * loop_i + 1
        /\ pc = "done" => Len(net) = 3 * Len(id_list) + 1

\* a run of two identifiers is over, its last detail request failed
C9_Witness ==
    /\ pc = "done"
    /\ Len(id_list) = 2
    /\ Failed(job_response)
    /\ Cardinality(Ops("sleep")) = 2
    /\ Cardinality(Ops("GET detail")) = 2

IsPrefix(a, b) == Len(a) <= Len(b) /\ a = SubSeq(b, 1, Len(a))

\* C10: job_list only grows, by one record at its end; it holds as many
\* records as detail requests were made, the k-th with id_list[k] as its
\* job_id; so it is not empty when the loop is over, and main never reports
\* that no job data was scraped.
C10_JobListPrefix ==
    /\ [](/\ Len(job_list) = Cardinality(Ops("GET detail"))
          /\ Len(job_list) <= Len(id_list)
          /\ \A k \in 1..Len(job_list) :
                DictGet(job_list[k], "job_id") = id_list[k]
          /\ (pc = "for" /\ loop_i >= Len(id_list)) => job_list # <<>>
          /\ report.msg # "No job data was successfully scraped.")
    /\ [][IsPrefix(job_list, job_list') /\ Len(job_list') <= Len(job_list) + 1]_vars

\* the first of two identifiers has been fetched
C10_Witness ==
    /\ pc = "sleep"
    /\ Len(id_list) = 2
    /\ Len(job_list) = 1
    /\ loop_i = 1
    /\ ~AllNull(job_list[1])

\* C8: once get_job_ids has returned identifiers, the run ends with the
\* file written: whatever fails or is missing, main reaches the save, writes
\* the file once and not before the last identifier's fetch, and nothing is
\* raised.
C8_RunCompletes ==
    /\ (pc = "for") ~> (pc = "done" /\ writes = 1 /\ csv.exists)
    /\ [](pc # "crashed" /\ raised = NoExc)
    /\ [](writes <= 1)
    /\ [](writes = 1 => /\ pc = "done"
                        /\ Cardinality(Ops("GET detail")) = Len(id_list)
                        /\ Len(job_list) = Len(id_list))
    /\ [][writes' # writes => (pc = "for" /\ loop_i = Len(id_list))]_vars

\* a run of two identifiers whose every detail request failed is over
C8_Witness ==
    /\ pc = "done"
    /\ writes = 1
    /\ Len(id_list) = 2
    /\ \A k \in 1..2 : AllNull(job_list[k])

===========================================================================
